---- MODULE Spec2Model ----
(***************************************************************************)
(* A model of package clog (canonical.go): the canonical logging context,  *)
(* an insertion-ordered tree of key/value pairs reached through a          *)
(* context.Context, with its Set*/Add* accessors and MarshalJSON.          *)
(*                                                                         *)
(* Strings (keys and string values) are sequences of one-character         *)
(* strings, so that ToLower, Split and the JSON escaping are computed      *)
(* character by character.  A float64 is kept as a count of halves (0.5),  *)
(* which are exact in binary floating point, so that + on them is exact.   *)
(* A float64 is finite (json.Marshal has no text for NaN and the           *)
(* infinities), and an int is far from the limits of its 64 bits.          *)
(***************************************************************************)
EXTENDS Integers, Sequences, FiniteSets, TLC

VARIABLES
  carriers,   \* the context.Context values made so far (a parent chain)
  stores,     \* the *canonical objects made by newCanonical
  nodes,      \* the heap of *orderedmap.OrderedMap objects (pairs in order)
  ret,        \* the last call at the package API and what it returned
  nops,       \* Set*/Add* calls made so far
  tasks,      \* goroutines running an accessor step by step (SpecConc)
  hist,       \* per store, the Set* calls made on it (a history variable)
  http        \* the CanonicalLogger, the request it serves and its sink (SpecHTTP)

vars == <<carriers, stores, nodes, ret, nops, tasks, hist, http>>

\* ---------------------------------------------------------------- bounds

MaxOps == 3
MaxCarriers == 3
MaxTasks == 2

\* ---------------------------------------------------------------- inputs

\* The key strings the callers pass.
KeySet ==
  { <<"e">>,
    <<"a", ".", "b">>,
    <<"a", ".", "b", ".", "c">>, <<"A", ".", "B", ".", "C">>,
    <<"a", ".", "b", ".", "d">> }

\* The string values the callers pass (the second one holds a quote).
StrSet == { <<"x">>, <<"x", "\"">> }

\* The int values the callers pass.
IntSet == {1, 2}

\* The float64 values the callers pass, in halves: 0.5 and 1.5.
FloatSet == {1, 3}

\* ---------------------------------------------------------------- values

\* The `any` stored in an ordered map: a string, an int, a float64 or a
\* nested *orderedmap.OrderedMap (i is the int, the halves or the node).
StringVal(s) == [kind |-> "string", s |-> s, i |-> 0]
IntVal(i) == [kind |-> "int", s |-> <<>>, i |-> i]
FloatVal(h) == [kind |-> "float64", s |-> <<>>, i |-> h]
NodeVal(n) == [kind |-> "node", s |-> <<>>, i |-> n]

\* The nil interface value (what Get returns for a missing key).
NilVal == [kind |-> "nil", s |-> <<>>, i |-> 0]

\* The key under which Init stores the *canonical in the context.
contextKey == <<"_", "_", "c", "l", "o", "g", "_", "_">>

\* The key the callers use for their own context values.
otherKey == <<"f", "o", "o">>

\* ---------------------------------------------------------------- keys

ToLowerCh(ch) ==
  CASE ch = "A" -> "a"
    [] ch = "B" -> "b"
    [] ch = "C" -> "c"
    [] ch = "D" -> "d"
    [] OTHER -> ch

\* strings.ToLower
ToLower(s) == [i \in 1..Len(s) |-> ToLowerCh(s[i])]

\* strings.Split(s, "."): the pieces between the dots, empty pieces kept.
RECURSIVE Split(_)
Split(s) ==
  LET dots == {i \in 1..Len(s) : s[i] = "."}
  IN IF dots = {} THEN <<s>>
     ELSE LET i == CHOOSE j \in dots : \A m \in dots : j <= m
          IN <<SubSeq(s, 1, i - 1)>> \o Split(SubSeq(s, i + 1, Len(s)))

\* A plausible slip in normalizeKey: the key is split as it was passed.
normalizeKeyKeepsCase(key) == Split(key)

\* canonical.normalizeKey
normalizeKey(key) == Split(ToLower(key))

\* ---------------------------------------------------------------- ordered map

\* The position of key k in the ordered map m, 0 when it is absent.
OMFind(m, k) ==
  IF \E i \in 1..Len(m) : m[i].k = k
  THEN CHOOSE i \in 1..Len(m) : m[i].k = k
  ELSE 0

\* OrderedMap.Get: the value and whether the key is present.
OMGet(m, k) ==
  LET i == OMFind(m, k)
  IN IF i = 0 THEN [val |-> NilVal, ok |-> FALSE]
     ELSE [val |-> m[i].v, ok |-> TRUE]

\* A plausible slip in Set: the pair is moved to the end on overwrite.
OMSetMovesToEnd(m, k, v) ==
  LET keep == {i \in 1..Len(m) : m[i].k # k}
      F[j \in 0..Len(m)] ==
        IF j = 0 THEN <<>>
        ELSE IF j \in keep THEN Append(F[j - 1], m[j]) ELSE F[j - 1]
  IN Append(F[Len(m)], [k |-> k, v |-> v])

\* A plausible slip in Set: a key that is there keeps its value.
OMSetKeepsOld(m, k, v) ==
  IF OMFind(m, k) = 0 THEN Append(m, [k |-> k, v |-> v]) ELSE m

\* OrderedMap.Set: overwrite in place, or append a new pair at the end.
OMSet(m, k, v) ==
  LET i == OMFind(m, k)
  IN IF i = 0 THEN Append(m, [k |-> k, v |-> v])
     ELSE [m EXCEPT ![i].v = v]

\* ---------------------------------------------------------------- set / add

\* The outcome of a walk: the heap it leaves and whether it panicked.
Outcome(h, p) == [h |-> h, panic |-> p]

\* A plausible slip in set: an intermediate Node is always made afresh.
RECURSIVE setFreshNode(_, _, _, _)
setFreshNode(h, parts, state, value) ==
  IF Len(parts) = 1
  THEN Outcome([h EXCEPT ![state] = OMSet(@, parts[1], value)], FALSE)
  ELSE LET id == Len(h) + 1
           h1 == Append([h EXCEPT ![state] = OMSet(@, parts[1], NodeVal(id))], <<>>)
       IN setFreshNode(h1, Tail(parts), id, value)

\* canonical.set: walk (and create) the Nodes of parts, set the last part.
\* val.(*orderedmap.OrderedMap) panics when val is not a Node.
RECURSIVE set(_, _, _, _)
set(h, parts, state, value) ==
  IF Len(parts) = 1
  THEN Outcome([h EXCEPT ![state] = OMSet(@, parts[1], value)], FALSE)
  ELSE LET g == OMGet(h[state], parts[1])
       IN IF ~g.ok
          THEN LET id == Len(h) + 1
                   h1 == Append([h EXCEPT ![state] = OMSet(@, parts[1], NodeVal(id))], <<>>)
               IN set(h1, Tail(parts), id, value)
          ELSE IF g.val.kind # "node"
               THEN Outcome(h, TRUE)
               ELSE set(h, Tail(parts), g.val.i, value)

\* A plausible slip in the leaf of add: the second test reads the value
\* just stored, so that a new leaf holds twice the delta.
addLeafTwice(m, k, kind, value) ==
  LET g == OMGet(m, k)
      m1 == IF ~g.ok THEN OMSet(m, k, [kind |-> kind, s |-> <<>>, i |-> value]) ELSE m
      g1 == OMGet(m1, k)
  IN IF g1.val.kind = kind
     THEN OMSet(m1, k, [kind |-> kind, s |-> <<>>, i |-> g1.val.i + value])
     ELSE m1

\* A plausible slip in the leaf of add: the kind of the leaf is not tested.
addLeafAnyKind(m, k, kind, value) ==
  LET g == OMGet(m, k)
  IN IF ~g.ok THEN OMSet(m, k, [kind |-> kind, s |-> <<>>, i |-> value])
     ELSE OMSet(m, k, [kind |-> kind, s |-> <<>>, i |-> g.val.i + value])

\* The leaf of canonical.add (kind "int") and canonical.addFloat (kind
\* "float64"): store value when the key is absent; add to a value of the
\* same kind; otherwise leave the map alone.
addLeaf(m, k, kind, value) ==
  LET g == OMGet(m, k)
      m1 == IF ~g.ok THEN OMSet(m, k, [kind |-> kind, s |-> <<>>, i |-> value]) ELSE m
  IN IF g.val.kind = kind
     THEN OMSet(m1, k, [kind |-> kind, s |-> <<>>, i |-> g.val.i + value])
     ELSE m1

\* A plausible slip in the walk of add: an intermediate Node is stored
\* whether or not the part holds one.
RECURSIVE addFreshNode(_, _, _, _, _)
addFreshNode(h, parts, state, kind, value) ==
  IF Len(parts) = 1
  THEN Outcome([h EXCEPT ![state] = addLeaf(@, parts[1], kind, value)], FALSE)
  ELSE LET id == Len(h) + 1
           h1 == Append([h EXCEPT ![state] = OMSet(@, parts[1], NodeVal(id))], <<>>)
       IN addFreshNode(h1, Tail(parts), id, kind, value)

\* canonical.add and canonical.addFloat: the walk of set, then addLeaf.
RECURSIVE add(_, _, _, _, _)
add(h, parts, state, kind, value) ==
  IF Len(parts) = 1
  THEN Outcome([h EXCEPT ![state] = addLeaf(@, parts[1], kind, value)], FALSE)
  ELSE LET g == OMGet(h[state], parts[1])
       IN IF ~g.ok
          THEN LET id == Len(h) + 1
                   h1 == Append([h EXCEPT ![state] = OMSet(@, parts[1], NodeVal(id))], <<>>)
               IN add(h1, Tail(parts), id, kind, value)
          ELSE IF g.val.kind # "node"
               THEN Outcome(h, TRUE)
               ELSE add(h, Tail(parts), g.val.i, kind, value)

\* ---------------------------------------------------------------- MarshalJSON

\* The JSON escaping of one character of a string.
EscapeCh(ch) ==
  IF ch = "\"" THEN "\\\"" ELSE IF ch = "\\" THEN "\\\\" ELSE ch

\* A string as a JSON string: quoted, its characters escaped.
JSONString(s) ==
  LET F[j \in 0..Len(s)] == IF j = 0 THEN "" ELSE F[j - 1] \o EscapeCh(s[j])
  IN "\"" \o F[Len(s)] \o "\""

\* A float64 (in halves, not negative) in its shortest decimal form.
JSONFloat(h) ==
  IF h % 2 = 0 THEN ToString(h \div 2) ELSE ToString(h \div 2) \o ".5"

\* json.Marshal of an ordered map: its pairs in order, nested maps alike.
RECURSIVE marshal(_, _)
marshal(h, n) ==
  LET m == h[n]
      value(v) ==
        CASE v.kind = "string" -> JSONString(v.s)
          [] v.kind = "int" -> ToString(v.i)
          [] v.kind = "float64" -> JSONFloat(v.i)
          [] v.kind = "node" -> marshal(h, v.i)
      F[j \in 0..Len(m)] ==
        IF j = 0 THEN ""
        ELSE F[j - 1] \o (IF j > 1 THEN "," ELSE "")
               \o JSONString(m[j].k) \o ":" \o value(m[j].v)
  IN "{" \o F[Len(m)] \o "}"

\* canonical.string
string(h, ss, st) == marshal(h, ss[st].values)

\* ---------------------------------------------------------------- context

\* context.Background()
Background == [parent |-> 0, key |-> <<>>, val |-> 0]

\* ctx.Value(key): the value of the nearest carrier of the chain that
\* holds key, 0 (nil) when none does.
RECURSIVE Value(_, _, _)
Value(cs, c, key) ==
  IF c = 0 THEN 0
  ELSE IF cs[c].key = key THEN cs[c].val
  ELSE Value(cs, cs[c].parent, key)

\* A value that is no *canonical, such as the "bar" of a caller's
\* context.WithValue(ctx, "foo", "bar").
Foreign == -1

\* ctx.Value(contextKey).(*canonical) among the carriers cs: the store that
\* carrier c leads to, 0 when the value under the key is nil or is no
\* *canonical (the assertion's ok is false).
StoreIn(cs, c) ==
  LET v == Value(cs, c, contextKey) IN IF v > 0 THEN v ELSE 0

\* The store a carrier leads to, 0 when it leads to none.
StoreOf(c) == StoreIn(carriers, c)

\* What the API records of a call.
Ret(op, c, key, val, out, newctx, panic) ==
  [op |-> op, ctx |-> c, key |-> key, val |-> val, out |-> out,
   newctx |-> newctx, panic |-> panic]

\* The history of a store: while every Set*/Add* call made on it was a
\* Set* that returned and their normalized keys are pairwise distinct (ok),
\* the calls in order, each with its normalized key, its value and the
\* carrier it was made through.
NoHist == [ok |-> TRUE, log |-> <<>>]

Logged(H, op, c, key, val, panic) ==
  IF /\ H.ok
     /\ ~panic
     /\ op \in {"SetString", "SetInt", "SetFloat64"}
     /\ \A j \in 1..Len(H.log) : H.log[j].parts # normalizeKey(key)
  THEN [ok |-> TRUE, log |-> Append(H.log, [parts |-> normalizeKey(key), val |-> val, ctx |-> c])]
  ELSE [ok |-> FALSE, log |-> <<>>]

\* What a goroutine holds when it runs no accessor.
Idle ==
  [pc |-> "idle", op |-> "none", key |-> <<>>, parts |-> <<>>, state |-> 0,
   kind |-> "nil", value |-> NilVal, vv |-> 0]

\* No CanonicalLogger has been made.
NoLogger == [wrapped |-> "none", logFn |-> "none"]

\* The middleware before NewCanonicalLogger is called: no logger, no
\* panic message, no request (the fields are described at SpecHTTP).
NoRequest ==
  [cl |-> NoLogger, msg |-> "", pc |-> "idle", ctx |-> 0, header |-> <<>>,
   respHeader |-> <<>>, statusCode |-> 0, wroteHeader |-> 0, sink |-> <<>>]

Init ==
  /\ carriers = <<Background>>
  /\ stores = <<>>
  /\ nodes = <<>>
  /\ ret = Ret("none", 0, <<>>, NilVal, "", 0, FALSE)
  /\ nops = 0
  /\ tasks = [t \in 1..MaxTasks |-> Idle]
  /\ hist = <<>>
  /\ http = NoRequest

\* ---------------------------------------------------------------- the API

\* Init: attach a new canonical to a new carrier, unless the chain has a
\* value (of any type) under the key.
InitCall(c) ==
  /\ IF Value(carriers, c, contextKey) = 0
     THEN /\ Len(carriers) < MaxCarriers
          /\ nodes' = Append(nodes, <<>>)
          /\ stores' = Append(stores, [values |-> Len(nodes) + 1])
          /\ carriers' = Append(carriers, [parent |-> c, key |-> contextKey, val |-> Len(stores) + 1])
          /\ ret' = Ret("Init", c, <<>>, NilVal, "", Len(carriers) + 1, FALSE)
          /\ hist' = Append(hist, NoHist)
     ELSE /\ UNCHANGED <<nodes, stores, carriers, hist>>
          /\ ret' = Ret("Init", c, <<>>, NilVal, "", c, FALSE)
  /\ UNCHANGED <<nops, tasks, http>>

\* context.WithValue(ctx, key, "bar"): a child carrier made by a caller.
\* The key of the package is the plain string "__clog__", so a caller's
\* string key can be equal to it.
WithValue(c, key) ==
  /\ Len(carriers) < MaxCarriers
  /\ carriers' = Append(carriers, [parent |-> c, key |-> key, val |-> Foreign])
  /\ ret' = Ret("WithValue", c, <<>>, NilVal, "", Len(carriers) + 1, FALSE)
  /\ UNCHANGED <<stores, nodes, nops, tasks, hist, http>>

\* MarshalJSON
MarshalJSON(c) ==
  /\ ret' = Ret("MarshalJSON", c, <<>>, NilVal,
                IF StoreOf(c) = 0 THEN "" ELSE string(nodes, stores, StoreOf(c)),
                0, FALSE)
  /\ UNCHANGED <<carriers, stores, nodes, nops, tasks, hist, http>>

\* A plausible slip in the accessors: a missing store is made on demand.
CallMakesStore(op, c, key, val, o) ==
  /\ nops < MaxOps
  /\ IF StoreOf(c) = 0
     THEN /\ nodes' = Append(nodes, <<>>)
          /\ stores' = Append(stores, [values |-> Len(nodes) + 1])
          /\ carriers' = [carriers EXCEPT ![c] = [@ EXCEPT !.key = contextKey, !.val = Len(stores) + 1]]
          /\ ret' = Ret(op, c, key, val, "", 0, FALSE)
          /\ hist' = Append(hist, NoHist)
     ELSE /\ nodes' = o.h
          /\ ret' = Ret(op, c, key, val, "", 0, o.panic)
          /\ hist' = [hist EXCEPT ![StoreOf(c)] = Logged(@, op, c, key, val, o.panic)]
          /\ UNCHANGED <<carriers, stores>>
  /\ nops' = nops + 1
  /\ UNCHANGED <<tasks, http>>

\* The shape of SetString, SetInt, SetFloat64, AddInt and AddFloat64: with
\* no *canonical in the context nothing happens; otherwise the heap is the
\* one the walk o leaves, and a panic of the walk reaches the caller.
Call(op, c, key, val, o) ==
  /\ nops < MaxOps
  /\ IF StoreOf(c) = 0
     THEN /\ UNCHANGED <<nodes, hist>>
          /\ ret' = Ret(op, c, key, val, "", 0, FALSE)
     ELSE /\ nodes' = o.h
          /\ ret' = Ret(op, c, key, val, "", 0, o.panic)
          /\ hist' = [hist EXCEPT ![StoreOf(c)] = Logged(@, op, c, key, val, o.panic)]
  /\ nops' = nops + 1
  /\ UNCHANGED <<carriers, stores, tasks, http>>

\* The root map of the store of carrier c (read only when c has a store).
Root(c) == stores[StoreOf(c)].values

\* canonical.setString, setInt, setFloat64, addInt, addFloat64
setString(h, root, key, value) == set(h, normalizeKey(key), root, StringVal(value))
setInt(h, root, key, value) == set(h, normalizeKey(key), root, IntVal(value))
setFloat64(h, root, key, value) == set(h, normalizeKey(key), root, FloatVal(value))
addInt(h, root, key, value) == add(h, normalizeKey(key), root, "int", value)
addFloat64(h, root, key, value) == add(h, normalizeKey(key), root, "float64", value)

SetString(c, key, value) ==
  Call("SetString", c, key, StringVal(value),
       IF StoreOf(c) = 0 THEN Outcome(nodes, FALSE) ELSE setString(nodes, Root(c), key, value))

SetInt(c, key, value) ==
  Call("SetInt", c, key, IntVal(value),
       IF StoreOf(c) = 0 THEN Outcome(nodes, FALSE) ELSE setInt(nodes, Root(c), key, value))

SetFloat64(c, key, value) ==
  Call("SetFloat64", c, key, FloatVal(value),
       IF StoreOf(c) = 0 THEN Outcome(nodes, FALSE) ELSE setFloat64(nodes, Root(c), key, value))

AddInt(c, key, value) ==
  Call("AddInt", c, key, IntVal(value),
       IF StoreOf(c) = 0 THEN Outcome(nodes, FALSE) ELSE addInt(nodes, Root(c), key, value))

AddFloat64(c, key, value) ==
  Call("AddFloat64", c, key, FloatVal(value),
       IF StoreOf(c) = 0 THEN Outcome(nodes, FALSE) ELSE addFloat64(nodes, Root(c), key, value))

Carriers == 1..Len(carriers)

\* One unit of work: Init on context.Background() attaches the one store,
\* and the accessors are called with every key and value of the input sets.
Next ==
  \/ \E c \in Carriers : (stores = <<>> \/ StoreOf(c) # 0) /\ InitCall(c)
  \/ \E c \in Carriers : MarshalJSON(c)
  \/ \E c \in Carriers, key \in KeySet, value \in StrSet : SetString(c, key, value)
  \/ \E c \in Carriers, key \in KeySet, value \in IntSet : SetInt(c, key, value)
  \/ \E c \in Carriers, key \in KeySet, value \in FloatSet : SetFloat64(c, key, value)
  \/ \E c \in Carriers, key \in KeySet, value \in IntSet : AddInt(c, key, value)
  \/ \E c \in Carriers, key \in KeySet, value \in FloatSet : AddFloat64(c, key, value)

Spec == Init /\ [][Next]_vars

\* The key and the values the callers pass in the runs over many carriers.
CtxKeySet == { <<"a", ".", "b">> }
CtxStrSet == { <<"x">> }
CtxIntSet == { 1 }
CtxFloatSet == { 3 }

\* Many carriers: any tree of contexts made by Init and context.WithValue,
\* several stores among them, the accessors called through any carrier.
NextCtx ==
  \/ \E c \in Carriers : InitCall(c)
  \/ \E c \in Carriers, key \in {otherKey, contextKey} : WithValue(c, key)
  \/ \E c \in Carriers : MarshalJSON(c)
  \/ \E c \in Carriers, key \in CtxKeySet, value \in CtxStrSet : SetString(c, key, value)
  \/ \E c \in Carriers, key \in CtxKeySet, value \in CtxIntSet : SetInt(c, key, value)
  \/ \E c \in Carriers, key \in CtxKeySet, value \in CtxFloatSet : SetFloat64(c, key, value)
  \/ \E c \in Carriers, key \in CtxKeySet, value \in CtxIntSet : AddInt(c, key, value)
  \/ \E c \in Carriers, key \in CtxKeySet, value \in CtxFloatSet : AddFloat64(c, key, value)

SpecCtx == Init /\ [][NextCtx]_vars

\* ---------------------------------------------------------------- goroutines

\* canonical holds no lock: an accessor run by a goroutine is a sequence of
\* calls on the ordered maps, and the calls of several goroutines
\* interleave.  Each Get and each Set of a map is one step here (the race
\* inside one call of the map is left out); what a step does to the
\* goroutine alone (the type assertion, the recursive call) is part of it.

Tasks == 1..MaxTasks

\* The keys and the values the goroutines pass.
ConcKeySet == { <<"e">>, <<"a", ".", "b">>, <<"a", ".", "d">> }
ConcIntSet == { 1, 2 }

\* Where a goroutine stands once it is in the map `state` with `parts` left.
At(parts) == IF Len(parts) = 1 THEN "leaf" ELSE "walk"

\* The entry of SetInt / AddInt in goroutine t: the lookup of the store in
\* the context, normalizeKey, and the call of set / add on the root map.
Go(t, op, c, key, value) ==
  /\ tasks[t].pc = "idle"
  /\ tasks' = [tasks EXCEPT ![t] =
       IF StoreOf(c) = 0
       THEN [@ EXCEPT !.pc = "done"]
       ELSE [pc |-> At(normalizeKey(key)), op |-> op, key |-> key,
             parts |-> normalizeKey(key), state |-> Root(c),
             kind |-> value.kind, value |-> value, vv |-> 0]]
  /\ UNCHANGED <<carriers, stores, nodes, ret, nops, hist, http>>

GoSetInt(t, c, key, value) == Go(t, "set", c, key, IntVal(value))

GoAddInt(t, c, key, value) == Go(t, "add", c, key, IntVal(value))

\* set, add: val, ok := state.Get(parts[0]) for an intermediate part, and
\* for a part that is there the type assertion and the recursive call.
Walk(t) ==
  LET T == tasks[t]
      g == OMGet(nodes[T.state], T.parts[1])
  IN /\ T.pc = "walk"
     /\ tasks' = [tasks EXCEPT ![t] =
          IF ~g.ok THEN [@ EXCEPT !.pc = "link"]
          ELSE IF g.val.kind # "node" THEN [@ EXCEPT !.pc = "panic"]
          ELSE [@ EXCEPT !.state = g.val.i, !.parts = Tail(T.parts),
                         !.pc = At(Tail(T.parts))]]
     /\ UNCHANGED <<carriers, stores, nodes, ret, nops, hist, http>>

\* set, add: after !ok, val = orderedmap.New(); state.Set(parts[0], val),
\* and the recursive call into the new map.
Link(t) ==
  LET T == tasks[t]
      id == Len(nodes) + 1
  IN /\ T.pc = "link"
     /\ nodes' = Append([nodes EXCEPT ![T.state] = OMSet(@, T.parts[1], NodeVal(id))], <<>>)
     /\ tasks' = [tasks EXCEPT ![t] =
          [@ EXCEPT !.state = id, !.parts = Tail(T.parts), !.pc = At(Tail(T.parts))]]
     /\ UNCHANGED <<carriers, stores, ret, nops, hist, http>>

\* set: state.Set(parts[0], value) for the last part.
Put(t) ==
  LET T == tasks[t]
  IN /\ T.pc = "leaf" /\ T.op = "set"
     /\ nodes' = [nodes EXCEPT ![T.state] = OMSet(@, T.parts[1], T.value)]
     /\ tasks' = [tasks EXCEPT ![t] = [@ EXCEPT !.pc = "done"]]
     /\ UNCHANGED <<carriers, stores, ret, nops, hist, http>>

\* add: val, ok := state.Get(parts[0]) for the last part, and the tests on
\* what it returned.
LeafGet(t) ==
  LET T == tasks[t]
      g == OMGet(nodes[T.state], T.parts[1])
  IN /\ T.pc = "leaf" /\ T.op = "add"
     /\ tasks' = [tasks EXCEPT ![t] =
          IF ~g.ok THEN [@ EXCEPT !.pc = "init"]
          ELSE IF g.val.kind = T.kind THEN [@ EXCEPT !.pc = "acc", !.vv = g.val.i]
          ELSE [@ EXCEPT !.pc = "done"]]
     /\ UNCHANGED <<carriers, stores, nodes, ret, nops, hist, http>>

\* add: after !ok, state.Set(parts[0], value); val is nil, so that the
\* second test fails.
LeafInit(t) ==
  LET T == tasks[t]
  IN /\ T.pc = "init"
     /\ nodes' = [nodes EXCEPT ![T.state] = OMSet(@, T.parts[1], T.value)]
     /\ tasks' = [tasks EXCEPT ![t] = [@ EXCEPT !.pc = "done"]]
     /\ UNCHANGED <<carriers, stores, ret, nops, hist, http>>

\* add: state.Set(parts[0], vv+value) with the vv that Get returned.
LeafAcc(t) ==
  LET T == tasks[t]
  IN /\ T.pc = "acc"
     /\ nodes' = [nodes EXCEPT ![T.state] =
          OMSet(@, T.parts[1], [kind |-> T.kind, s |-> <<>>, i |-> T.vv + T.value.i])]
     /\ tasks' = [tasks EXCEPT ![t] = [@ EXCEPT !.pc = "done"]]
     /\ UNCHANGED <<carriers, stores, ret, nops, hist, http>>

\* Goroutines of one unit of work: Init, then SetInt and AddInt run by the
\* goroutines step by step, MarshalJSON called at any moment.
NextConc ==
  \/ stores = <<>> /\ InitCall(1)
  \/ \E c \in Carriers : StoreOf(c) # 0 /\ MarshalJSON(c)
  \/ \E t \in Tasks, c \in Carriers, key \in ConcKeySet, value \in ConcIntSet :
       StoreOf(c) # 0 /\ GoSetInt(t, c, key, value)
  \/ \E t \in Tasks, c \in Carriers, key \in ConcKeySet, value \in ConcIntSet :
       StoreOf(c) # 0 /\ GoAddInt(t, c, key, value)
  \/ \E t \in Tasks : Walk(t)
  \/ \E t \in Tasks : Link(t)
  \/ \E t \in Tasks : Put(t)
  \/ \E t \in Tasks : LeafGet(t)
  \/ \E t \in Tasks : LeafInit(t)
  \/ \E t \in Tasks : LeafAcc(t)

SpecConc == Init /\ [][NextConc]_vars

\* ---------------------------------------------------------------- the middleware

\* http holds the middleware and one request served by it:
\*   cl           the CanonicalLogger made (its wrapped and logFn), or NoLogger
\*   msg          the value NewCanonicalLogger panicked with, "" if it did not
\*   pc           where ServeHTTP is: "idle" (not called), "handler" (inside
\*                cl.wrapped.ServeHTTP), "done" (returned), "panicked"
\*   ctx          r.Context() after line 26
\*   header       the Content-Length header of the request ("" when absent)
\*   respHeader   the Content-Length in w.Header() ("" when absent)
\*   statusCode   loggingResponseWriter.statusCode
\*   wroteHeader  the status the wrapped http.ResponseWriter has sent, 0 when
\*                it has sent none
\*   sink         the strings logFn was called with, in order

\* The keys the middleware sets.
KeyMethod == <<"h", "t", "t", "p", ".", "r", "e", "q", "u", "e", "s", "t", ".", "m", "e", "t", "h", "o", "d">>
KeyPath == <<"h", "t", "t", "p", ".", "r", "e", "q", "u", "e", "s", "t", ".", "p", "a", "t", "h">>
KeyDuration == <<"h", "t", "t", "p", ".", "r", "e", "s", "p", "o", "n", "s", "e", ".", "d", "u", "r", "a", "t", "i", "o", "n", "_", "m", "s">>
KeyRequestBytes == <<"h", "t", "t", "p", ".", "r", "e", "q", "u", "e", "s", "t", ".", "b", "o", "d", "y", "_", "b", "y", "t", "e", "s">>
KeyResponseBytes == <<"h", "t", "t", "p", ".", "r", "e", "s", "p", "o", "n", "s", "e", ".", "b", "o", "d", "y", "_", "b", "y", "t", "e", "s">>
KeyStatusCode == <<"h", "t", "t", "p", ".", "r", "e", "s", "p", "o", "n", "s", "e", ".", "s", "t", "a", "t", "u", "s", "_", "c", "o", "d", "e">>

\* The largest int.  strconv.Atoi returns an int, which is 32 bits wide on
\* a 32-bit build and 64 bits wide on a 64-bit build; the model takes the
\* 32-bit build (on the other, 9223372036854775807 takes this place).
MaxInt == 2147483647

\* http.StatusOK, which the wrapped ResponseWriter sends when the handler
\* writes a body, or returns, without a WriteHeader.
StatusOK == 200

\* The value of a decimal digit, 10 for any other character.
DigitOf(ch) ==
  CASE ch = "0" -> 0 [] ch = "1" -> 1 [] ch = "2" -> 2 [] ch = "3" -> 3
    [] ch = "4" -> 4 [] ch = "5" -> 5 [] ch = "6" -> 6 [] ch = "7" -> 7
    [] ch = "8" -> 8 [] ch = "9" -> 9 [] OTHER -> 10

\* n, _ := strconv.Atoi(s): an optional sign and decimal digits give their
\* number; without a digit, or with any other character, Atoi fails and n
\* is 0; with a number out of the range of int, Atoi fails (ErrRange) and
\* n is the int of that sign that is largest in magnitude.
Atoi(s) ==
  LET signed == s # <<>> /\ s[1] \in {"+", "-"}
      d == IF signed THEN Tail(s) ELSE s
      M[j \in 0..Len(d)] ==
        IF j = 0 THEN [n |-> 0, over |-> FALSE]
        ELSE IF M[j - 1].over \/ M[j - 1].n > (MaxInt - DigitOf(d[j])) \div 10
             THEN [n |-> MaxInt, over |-> TRUE]
             ELSE [n |-> M[j - 1].n * 10 + DigitOf(d[j]), over |-> FALSE]
  IN IF d = <<>> \/ \E j \in 1..Len(d) : DigitOf(d[j]) = 10 THEN 0
     ELSE IF signed /\ s[1] = "-"
          THEN (IF M[Len(d)].over THEN (0 - MaxInt) - 1 ELSE 0 - M[Len(d)].n)
          ELSE M[Len(d)].n

\* The methods, paths and Content-Length headers of the requests, the
\* Content-Length headers and the status codes the handlers set, and the
\* milliseconds the handlers take.
MethodSet == { <<"G", "E", "T">> }
PathSet == { <<"/", "t">> }
ContentLengthSet == { <<>>, <<"2">>, <<"x">>, <<"3", "0", "0", "0", "0", "0", "0", "0", "0", "0">> }
CodeSet == { 200, 404 }
DurationSet == { 0, 1 }

\* The keys and the value of the handlers' own SetString calls.
HandlerKeySet == { <<"e">>, <<"h", "t", "t", "p", ".", "r", "e", "s", "p", "o", "n", "s", "e">> }
HandlerStrSet == { <<"x">> }

\* A heap, the history of the store, and whether a panic is unwinding.
World(h, H, panic) == [h |-> h, H |-> H, panic |-> panic]

\* SetString or SetInt through carrier c on the store with root map root,
\* as the statement after the ones that made w: skipped when one of them
\* panicked.
Then(w, op, c, root, key, val) ==
  IF w.panic THEN w
  ELSE LET o == IF op = "SetString"
                THEN setString(w.h, root, key, val.s)
                ELSE setInt(w.h, root, key, val.i)
       IN World(o.h, Logged(w.H, op, c, key, val, o.panic), o.panic)

\* NewCanonicalLogger.  wrapped is the nil interface ("nil"), an interface
\* that holds a nil value such as http.HandlerFunc(nil) ("typednil", which
\* wrapped == nil does not find) or a handler; logFn is nil or a func.
NewCanonicalLogger(wrapped, logFn) ==
  /\ http.cl = NoLogger
  /\ http.msg = ""
  /\ http' = IF logFn = "nil" THEN [http EXCEPT !.msg = "logFn cannot be nil"]
             ELSE IF wrapped = "nil" THEN [http EXCEPT !.msg = "wrapped cannot be nil"]
             ELSE [http EXCEPT !.cl = [wrapped |-> wrapped, logFn |-> logFn]]
  /\ ret' = Ret("NewCanonicalLogger", 0, <<>>, NilVal, "", 0, logFn = "nil" \/ wrapped = "nil")
  /\ UNCHANGED <<carriers, stores, nodes, nops, tasks, hist>>

\* ServeHTTP up to the call of the wrapped handler (lines 26 to 32), for a
\* request whose context is context.Background(): Init makes the carrier
\* and the store, then method and path are set.
ServeHTTP(method, path, header) ==
  /\ http.cl # NoLogger
  /\ http.pc = "idle"
  /\ LET c == Len(carriers) + 1
         root == Len(nodes) + 1
         w0 == World(Append(nodes, <<>>), NoHist, FALSE)
         w1 == Then(w0, "SetString", c, root, KeyMethod, StringVal(method))
         w2 == Then(w1, "SetString", c, root, KeyPath, StringVal(path))
     IN /\ carriers' = Append(carriers, [parent |-> 1, key |-> contextKey, val |-> Len(stores) + 1])
        /\ stores' = Append(stores, [values |-> root])
        /\ nodes' = w2.h
        /\ hist' = Append(hist, w2.H)
        /\ ret' = Ret("ServeHTTP", c, <<>>, NilVal, "", 0, w2.panic)
        /\ http' = [http EXCEPT !.pc = IF w2.panic THEN "panicked" ELSE "handler",
                                !.ctx = c, !.header = header]
  /\ UNCHANGED <<nops, tasks>>

\* The wrapped handler is a nil func behind a non-nil interface: calling
\* it panics (nil pointer dereference), which unwinds ServeHTTP.
NilHandler ==
  /\ http.pc = "handler"
  /\ http.cl.wrapped = "typednil"
  /\ http' = [http EXCEPT !.pc = "panicked"]
  /\ ret' = Ret("ServeHTTP", http.ctx, <<>>, NilVal, "", 0, TRUE)
  /\ UNCHANGED <<carriers, stores, nodes, nops, tasks, hist>>

\* A step of a handler is taken inside cl.wrapped.ServeHTTP.
InHandler ==
  /\ http.pc = "handler"
  /\ http.cl.wrapped = "handler"
  /\ nops < MaxOps

\* The handler calls SetString(r.Context(), key, value); a panic of it
\* unwinds the handler and ServeHTTP.
HandlerSetString(key, value) ==
  /\ InHandler
  /\ LET st == StoreOf(http.ctx)
         w == Then(World(nodes, hist[st], FALSE), "SetString", http.ctx,
                   stores[st].values, key, StringVal(value))
     IN /\ nodes' = w.h
        /\ hist' = [hist EXCEPT ![st] = w.H]
        /\ ret' = Ret("SetString", http.ctx, key, StringVal(value), "", 0, w.panic)
        /\ http' = IF w.panic THEN [http EXCEPT !.pc = "panicked"] ELSE http
  /\ nops' = nops + 1
  /\ UNCHANGED <<carriers, stores, tasks>>

\* loggingResponseWriter.WriteHeader: the code is recorded, whichever call
\* it is, and passed on; the wrapped ResponseWriter sends the code of the
\* first call only.
WriteHeader(code) ==
  /\ InHandler
  /\ http' = [http EXCEPT !.statusCode = code,
                          !.wroteHeader = IF @ = 0 THEN code ELSE @]
  /\ ret' = Ret("WriteHeader", http.ctx, <<>>, IntVal(code), "", 0, FALSE)
  /\ nops' = nops + 1
  /\ UNCHANGED <<carriers, stores, nodes, tasks, hist>>

\* The handler writes a body: loggingResponseWriter has no Write of its
\* own, so the call goes to the wrapped ResponseWriter, which sends
\* StatusOK first when no status was sent.
Write ==
  /\ InHandler
  /\ http' = [http EXCEPT !.wroteHeader = IF @ = 0 THEN StatusOK ELSE @]
  /\ ret' = Ret("Write", http.ctx, <<>>, NilVal, "", 0, FALSE)
  /\ nops' = nops + 1
  /\ UNCHANGED <<carriers, stores, nodes, tasks, hist>>

\* The handler calls w.Header().Set("Content-Length", value).
HeaderSet(value) ==
  /\ InHandler
  /\ http' = [http EXCEPT !.respHeader = value]
  /\ ret' = Ret("HeaderSet", http.ctx, <<>>, StringVal(value), "", 0, FALSE)
  /\ nops' = nops + 1
  /\ UNCHANGED <<carriers, stores, nodes, tasks, hist>>

\* ServeHTTP after the wrapped handler has returned (lines 33 to 44): the
\* four SetInt calls, then logFn(MarshalJSON(r.Context())).  A panic of a
\* SetInt unwinds ServeHTTP (it has no recover), and logFn is not called.
ServeHTTPReturn(ms) ==
  /\ http.pc = "handler"
  /\ http.cl.wrapped = "handler"
  /\ LET st == StoreOf(http.ctx)
         root == stores[st].values
         w0 == World(nodes, hist[st], FALSE)
         w1 == Then(w0, "SetInt", http.ctx, root, KeyDuration, IntVal(ms))
         w2 == Then(w1, "SetInt", http.ctx, root, KeyRequestBytes, IntVal(Atoi(http.header)))
         w3 == Then(w2, "SetInt", http.ctx, root, KeyResponseBytes, IntVal(Atoi(http.respHeader)))
         w4 == Then(w3, "SetInt", http.ctx, root, KeyStatusCode, IntVal(http.statusCode))
     IN /\ nodes' = w4.h
        /\ hist' = [hist EXCEPT ![st] = w4.H]
        /\ ret' = Ret("ServeHTTP", http.ctx, <<>>, NilVal, "", 0, w4.panic)
        /\ http' = IF w4.panic THEN [http EXCEPT !.pc = "panicked"]
                   ELSE [http EXCEPT !.pc = "done",
                                     !.sink = Append(@, string(w4.h, stores, st))]
  /\ UNCHANGED <<carriers, stores, nops, tasks>>

\* One middleware, one request, any handler.
NextHTTP ==
  \/ \E wrapped \in {"nil", "typednil", "handler"}, logFn \in {"nil", "func"} :
       NewCanonicalLogger(wrapped, logFn)
  \/ \E method \in MethodSet, path \in PathSet, header \in ContentLengthSet :
       ServeHTTP(method, path, header)
  \/ NilHandler
  \/ \E key \in HandlerKeySet, value \in HandlerStrSet : HandlerSetString(key, value)
  \/ \E code \in CodeSet : WriteHeader(code)
  \/ Write
  \/ \E value \in ContentLengthSet : HeaderSet(value)
  \/ \E ms \in DurationSet : ServeHTTPReturn(ms)

SpecHTTP == Init /\ [][NextHTTP]_vars

\* ---------------------------------------------------------------- reading a store

\* The value at the path parts below map n: NilVal when the path is not
\* there (a part is missing, or a part before the last holds a scalar).
RECURSIVE Lookup(_, _, _)
Lookup(h, n, parts) ==
  LET g == OMGet(h[n], parts[1])
  IN IF Len(parts) = 1 THEN g.val
     ELSE IF g.val.kind = "node" THEN Lookup(h, g.val.i, Tail(parts))
     ELSE NilVal

\* A part of the path before the last one holds a scalar.
RECURSIVE Blocked(_, _, _)
Blocked(h, n, parts) ==
  LET g == OMGet(h[n], parts[1])
  IN /\ Len(parts) > 1
     /\ g.ok
     /\ \/ g.val.kind # "node"
        \/ g.val.kind = "node" /\ Blocked(h, g.val.i, Tail(parts))

\* The keys of an ordered map, in its order.
Keys(m) == [j \in 1..Len(m) |-> m[j].k]

\* p is q or a beginning of q.
IsPrefix(p, q) == Len(p) <= Len(q) /\ SubSeq(q, 1, Len(p)) = p

\* What a store holds, without the identities of its maps: the pairs of
\* map n in order, a nested map as the sequence of its own pairs.
RECURSIVE Tree(_, _)
Tree(h, n) ==
  [j \in 1..Len(h[n]) |->
     LET v == h[n][j].v
     IN IF v.kind = "node"
        THEN [k |-> h[n][j].k, kind |-> "node", s |-> <<>>, i |-> 0, sub |-> Tree(h, v.i)]
        ELSE [k |-> h[n][j].k, kind |-> v.kind, s |-> v.s, i |-> v.i, sub |-> <<>>]]

\* ---------------------------------------------------------------- C1, C2

\* The heap right after Init: one store, its root map (1) empty.
EmptyStore == << <<>> >>

\* The goroutines that have called their accessor.
Called == {t \in Tasks : tasks[t].pc # "idle"}

\* The call of goroutine t run as a whole on heap h.
Whole(h, t) ==
  IF tasks[t].op = "set"
  THEN set(h, normalizeKey(tasks[t].key), 1, tasks[t].value).h
  ELSE add(h, normalizeKey(tasks[t].key), 1, tasks[t].kind, tasks[t].value.i).h

\* The heaps that the calls of the goroutines in S leave when they are run
\* one after another on h, in every order.
RECURSIVE Serial(_, _)
Serial(h, S) ==
  IF S = {} THEN {h}
  ELSE UNION {Serial(Whole(h, t), S \ {t}) : t \in S}

\* C1: concurrent Set*/Add* calls on one store are mutually exclusive: once
\* all of them have returned, the store is the one that the same calls leave
\* when run one after another in some order (no lost update of AddInt, both
\* leaves of two Sets under one new intermediate segment present).
C1_Serializable ==
  (stores # <<>> /\ Called # {} /\ \A t \in Called : tasks[t].pc \in {"done", "panic"})
    => Tree(nodes, 1) \in {Tree(h, 1) : h \in Serial(EmptyStore, Called)}

\* C2: MarshalJSON concurrent with Set*/Add* never renders a partially
\* updated store: what it returned is the rendering of the store before or
\* after whole calls, that is, of the store that some of the calls made so
\* far leave when run one after another.
C2_MarshalSeesWholeCalls ==
  (ret.op = "MarshalJSON" /\ StoreOf(ret.ctx) # 0)
    => ret.out \in {marshal(h, 1) : h \in UNION {Serial(EmptyStore, S) : S \in SUBSET Called}}

\* ---------------------------------------------------------------- C3

\* C3: no core operation aborts its caller, whatever the key and the store:
\* no call panics, a Set or Add through a segment that holds a scalar
\* included.
C3_NoAbort == ~ret.panic

\* ---------------------------------------------------------------- C4

\* A scalar as JSON text.
ScalarJSON(v) ==
  CASE v.kind = "string" -> JSONString(v.s)
    [] v.kind = "int" -> ToString(v.i)
    [] v.kind = "float64" -> JSONFloat(v.i)

\* The nested object that a list L of (path, value) describes: at each
\* level the first segments in the order in which they first occur in L, a
\* segment that ends a path with the value of that path, any other with the
\* object of the rests of the paths that begin with it.
RECURSIVE ExpectedJSON(_)
ExpectedJSON(L) ==
  LET Firsts[j \in 0..Len(L)] ==
        IF j = 0 THEN <<>>
        ELSE IF \E i \in 1..Len(Firsts[j - 1]) : Firsts[j - 1][i] = L[j].parts[1]
             THEN Firsts[j - 1]
             ELSE Append(Firsts[j - 1], L[j].parts[1])
      Under(k) ==
        LET G[j \in 0..Len(L)] ==
              IF j = 0 THEN <<>>
              ELSE IF L[j].parts[1] = k
                   THEN Append(G[j - 1], [parts |-> Tail(L[j].parts), val |-> L[j].val])
                   ELSE G[j - 1]
        IN G[Len(L)]
      Longer(e) == e.parts # <<>>
      Item(k) ==
        IF Under(k)[1].parts = <<>> THEN ScalarJSON(Under(k)[1].val)
        ELSE ExpectedJSON(SelectSeq(Under(k), Longer))
      F[j \in 0..Len(Firsts[Len(L)])] ==
        IF j = 0 THEN ""
        ELSE F[j - 1] \o (IF j > 1 THEN "," ELSE "")
               \o JSONString(Firsts[Len(L)][j]) \o ":" \o Item(Firsts[Len(L)][j])
  IN "{" \o F[Len(Firsts[Len(L)])] \o "}"

\* No path of the list is a beginning of another one.
PrefixFree(L) ==
  \A i, j \in 1..Len(L) : i # j => ~IsPrefix(L[i].parts, L[j].parts)

\* Store st holds every path of its history with the value set there, and
\* MarshalJSON renders exactly the object that the history describes.
RendersHistory(st) ==
  /\ \A j \in 1..Len(hist[st].log) :
       Lookup(nodes, stores[st].values, hist[st].log[j].parts) = hist[st].log[j].val
  /\ string(nodes, stores, st) = ExpectedJSON(hist[st].log)

\* C4 as stated: after Set* calls with pairwise distinct normalized keys,
\* MarshalJSON renders exactly those key paths, each with its value, the keys
\* of every level in first-insertion order.
C4_DistinctKeysRendered ==
  \A st \in 1..Len(stores) : hist[st].ok => RendersHistory(st)

\* C4 as amended: the same, for keys none of which is a beginning (by
\* segments) of another one.
C4_PrefixFreeKeysRendered ==
  \A st \in 1..Len(stores) :
    (hist[st].ok /\ PrefixFree(hist[st].log)) => RendersHistory(st)

\* Set("a.b.c", 1) then Set("a.b.d", 2) has been rendered.
C4_Witness ==
  /\ ret.op = "MarshalJSON"
  /\ ret.out = "{\"a\":{\"b\":{\"c\":1,\"d\":2}}}"
  /\ stores # <<>>
  /\ hist[1].ok
  /\ Len(hist[1].log) = 2

\* ---------------------------------------------------------------- C5 .. C8

\* The last call was op, made through a carrier that leads to a store.
Did(r, ops) == r.op \in ops /\ StoreOf(r.ctx) # 0

\* The root map of the store that the last call worked on.
RootOf(r) == stores[StoreOf(r.ctx)].values

SetOps == {"SetString", "SetInt", "SetFloat64"}
AddOps == {"AddInt", "AddFloat64"}

\* C5: a Set* on a path that holds a value (a scalar of any kind, or a
\* Node) returns and leaves exactly the new scalar at that path.
C5_SetOverwrites ==
  [][ (Did(ret', SetOps) /\ Lookup(nodes, RootOf(ret'), normalizeKey(ret'.key)) # NilVal)
        => /\ ~ret'.panic
           /\ Lookup(nodes', RootOf(ret'), normalizeKey(ret'.key)) = ret'.val ]_vars

\* A Set has replaced the Node at a.b (made by an earlier call on a.b.c or
\* a.b.d) by an int.
C5_Witness ==
  /\ Did(ret, SetOps)
  /\ normalizeKey(ret.key) = << <<"a">>, <<"b">> >>
  /\ Len(nodes) = 3
  /\ Lookup(nodes, RootOf(ret), << <<"a">>, <<"b">> >>) = IntVal(2)

\* C6: an Add* on a path whose leaf is absent (no part of the path holding
\* a scalar) returns and leaves exactly delta there; on a leaf of its own
\* numeric kind it leaves existing + delta.
C6_AddAccumulates ==
  [][ Did(ret', AddOps) =>
        LET p == normalizeKey(ret'.key)
            old == Lookup(nodes, RootOf(ret'), p)
            new == Lookup(nodes', RootOf(ret'), p)
        IN /\ (old = NilVal /\ ~Blocked(nodes, RootOf(ret'), p))
                => (~ret'.panic /\ new = ret'.val)
           /\ old.kind = ret'.val.kind
                => (~ret'.panic /\ new = [ret'.val EXCEPT !.i = old.i + ret'.val.i]) ]_vars

\* Three AddInt calls on a.b.d, absent at first, have left 1 + 2 + 2 there.
C6_Witness ==
  /\ Did(ret, {"AddInt"})
  /\ nops = 3
  /\ Len(nodes) = 3
  /\ nodes[3] = << [k |-> <<"d">>, v |-> IntVal(5)] >>

\* C7: an Add* on a leaf that holds a value of another kind (a string, the
\* other numeric kind, a Node) returns and leaves the whole store as it was.
C7_AddMismatchNoOp ==
  [][ ( /\ Did(ret', AddOps)
        /\ Lookup(nodes, RootOf(ret'), normalizeKey(ret'.key)).kind
             \notin {"nil", ret'.val.kind} )
        => (~ret'.panic /\ UNCHANGED <<nodes, stores, carriers>>) ]_vars

\* An AddFloat64 has been made on a.b.c, which holds an int, with d after
\* it in the same Node.
C7_Witness ==
  /\ Did(ret, {"AddFloat64"})
  /\ ~ret.panic
  /\ normalizeKey(ret.key) = << <<"a">>, <<"b">>, <<"c">> >>
  /\ Lookup(nodes, RootOf(ret), normalizeKey(ret.key)).kind = "int"
  /\ Len(nodes) = 3
  /\ Keys(nodes[3]) = << <<"c">>, <<"d">> >>

\* C8: no step changes the order of the keys of a Node: the keys it had
\* stay where they are, and a new key comes after all of them.
C8_KeyOrderStable ==
  [][ \A n \in 1..Len(nodes) :
        /\ n <= Len(nodes')
        /\ IsPrefix(Keys(nodes[n]), Keys(nodes'[n])) ]_vars

\* The third call has set a.b.c again, in place, before d in its Node.
C8_Witness ==
  /\ Did(ret, SetOps)
  /\ nops = 3
  /\ normalizeKey(ret.key) = << <<"a">>, <<"b">>, <<"c">> >>
  /\ Len(nodes) = 3
  /\ Keys(nodes[3]) = << <<"c">>, <<"d">> >>
  /\ nodes[3][1].v = ret.val

\* ---------------------------------------------------------------- C9, C10

\* C9: Init through a carrier that leads to a store returns that carrier
\* and makes nothing; through a carrier that leads to none it returns a new
\* carrier that leads to a new store, whose root map is new and empty.  In
\* both cases every carrier there was leads where it led, and every store
\* there was renders as it did.
C9_InitIdempotent ==
  [][ ret'.op = "Init" =>
        /\ IF StoreOf(ret'.ctx) # 0
           THEN /\ ret'.newctx = ret'.ctx
                /\ UNCHANGED <<carriers, stores, nodes>>
           ELSE /\ ret'.newctx = Len(carriers) + 1
                /\ Len(carriers') = Len(carriers) + 1
                /\ Len(stores') = Len(stores) + 1
                /\ StoreIn(carriers', ret'.newctx) = Len(stores')
                /\ stores'[Len(stores')].values > Len(nodes)
                /\ nodes'[stores'[Len(stores')].values] = <<>>
        /\ \A c \in Carriers : StoreIn(carriers', c) = StoreOf(c)
        /\ \A st \in 1..Len(stores) :
             string(nodes', stores', st) = string(nodes, stores, st) ]_vars

\* C10: through a carrier that leads to no store, a Set* or Add* returns
\* without a panic and makes and changes nothing (no store, no carrier, no
\* map), and MarshalJSON returns the empty string.
C10_NoStoreNoOp ==
  [][ (ret'.op \in SetOps \cup AddOps \cup {"MarshalJSON"} /\ StoreOf(ret'.ctx) = 0)
        => /\ ~ret'.panic
           /\ UNCHANGED <<carriers, stores, nodes>>
           /\ ret'.op = "MarshalJSON" => ret'.out = "" ]_vars

\* MarshalJSON has returned "" after three Set*/Add* calls, no store made.
C10_Witness ==
  /\ ret.op = "MarshalJSON"
  /\ ret.out = ""
  /\ nops = 3
  /\ stores = <<>>

-----------------------------------------------------------------------------
\* C11: every carrier derived from a carrier that has a store refers to
\* that same store, and a MarshalJSON through any carrier renders the Set*
\* calls made on its store through whichever carriers of the lineage, in
\* the order in which they were made (stated for the histories of Set*
\* calls on pairwise prefix-free keys, whose rendering is known).
C11_LineageSharesStore ==
  /\ \A c \in Carriers :
       (carriers[c].parent # 0 /\ StoreOf(carriers[c].parent) # 0)
         => StoreOf(c) = StoreOf(carriers[c].parent)
  /\ (/\ ret.op = "MarshalJSON"
      /\ StoreOf(ret.ctx) # 0
      /\ hist[StoreOf(ret.ctx)].ok
      /\ PrefixFree(hist[StoreOf(ret.ctx)].log))
       => ret.out = ExpectedJSON(hist[StoreOf(ret.ctx)].log)

-----------------------------------------------------------------------------
\* Every key of every map is lower-case, no map holds two keys that are
\* equal when case is ignored, and a Set* that returned has left its value
\* at the lower-cased path of the key it was passed.
LowerCaseKeys ==
  /\ \A n \in 1..Len(nodes) :
       /\ \A j \in 1..Len(nodes[n]) : nodes[n][j].k = ToLower(nodes[n][j].k)
       /\ \A i, j \in 1..Len(nodes[n]) :
            ToLower(nodes[n][i].k) = ToLower(nodes[n][j].k) => i = j
  /\ (Did(ret, SetOps) /\ ~ret.panic)
       => Lookup(nodes, RootOf(ret), Split(ToLower(ret.key))) = ret.val

-----------------------------------------------------------------------------
\* Map n and every map below it are in heap h2 what they are in heap h:
\* every leaf there has its value, its kind, its map and its position.
RECURSIVE Same(_, _, _)
Same(h, h2, n) ==
  /\ h2[n] = h[n]
  /\ \A j \in 1..Len(h[n]) : h[n][j].v.kind = "node" => Same(h, h2, h[n][j].v.i)

\* From heap h to heap h2 nothing but the path parts has changed at and
\* below map n.  A pair of n under another key than the first part is in
\* place with its value, and all below it is the same; the pair of the
\* first part, when more parts follow, is in place and holds what it held
\* (the same Node, or the same scalar), and below that Node nothing but
\* the rest of the path has changed.
RECURSIVE Frame(_, _, _, _)
Frame(h, h2, n, parts) ==
  /\ Len(h2[n]) >= Len(h[n])
  /\ \A j \in 1..Len(h[n]) :
       IF h[n][j].k # parts[1]
       THEN /\ h2[n][j] = h[n][j]
            /\ h[n][j].v.kind = "node" => Same(h, h2, h[n][j].v.i)
       ELSE Len(parts) > 1 =>
              /\ h2[n][j] = h[n][j]
              /\ h[n][j].v.kind = "node" => Frame(h, h2, h[n][j].v.i, Tail(parts))

\* C17: a Set* or Add* on path p changes only p.  Every leaf at a path
\* that is not p and does not begin with p keeps its value, its kind, its
\* map and its position there; and every Node that a proper beginning of
\* p held is still the Node held there (none is replaced by a new one),
\* with its other children unchanged and in place.
C17_OnlyPathChanges ==
  [][ Did(ret', SetOps \cup AddOps) =>
        Frame(nodes, nodes', RootOf(ret'), normalizeKey(ret'.key)) ]_vars

\* The third call was made on a.b.d and returned; the store holds the
\* leaves e and a.b.c of the two calls before it, next to the leaf a.b.d,
\* the latter two in the one Node at a.b.
C17_Witness ==
  /\ Did(ret, SetOps \cup AddOps)
  /\ ret.key = <<"a", ".", "b", ".", "d">>
  /\ ~ret.panic
  /\ nops = 3
  /\ Lookup(nodes, RootOf(ret), <<<<"e">>>>).kind \in {"string", "int", "float64"}
  /\ Lookup(nodes, RootOf(ret), <<<<"a">>, <<"b">>, <<"c">>>>).kind \in {"string", "int", "float64"}
  /\ Lookup(nodes, RootOf(ret), <<<<"a">>, <<"b">>, <<"d">>>>).kind \in {"string", "int", "float64"}
  /\ Len(nodes) = 3

-----------------------------------------------------------------------------
\* The store of the request and the value it holds under a key.
Stored(key) == Lookup(nodes, stores[StoreOf(http.ctx)].values, normalizeKey(key))

\* ServeHTTP has ended for the request, by a return or by a panic.
Ended == http.pc \in {"done", "panicked"}

\* C13: for the request served, logFn is called exactly once, after the
\* handler has finished and the middleware has stored its response fields,
\* with MarshalJSON's output for the store of the request, whatever the
\* handler has written into that store.  As a property of every state:
\* logFn is never called twice; when it has been called, ServeHTTP has
\* returned, the four fields are stored and the string is the rendering
\* of the store; and when ServeHTTP has ended for a request that a handler
\* (not a nil one) has served, logFn has been called.
C13_SinkOncePerRequest ==
  /\ Len(http.sink) <= 1
  /\ http.sink # <<>> =>
       /\ http.pc = "done"
       /\ http.sink[1] = string(nodes, stores, StoreOf(http.ctx))
       /\ \A key \in {KeyDuration, KeyRequestBytes, KeyResponseBytes, KeyStatusCode} :
            Stored(key).kind = "int"
  /\ (Ended /\ http.cl.wrapped = "handler") => Len(http.sink) = 1

\* C14: NewCanonicalLogger with a nil handler or a nil sink panics with
\* "wrapped cannot be nil" or "logFn cannot be nil" and makes no logger,
\* so that every CanonicalLogger there is has a handler and a sink that
\* are not nil, and a request is served by such a logger only.
C14_NoNilLogger ==
  /\ (ret.op = "NewCanonicalLogger" /\ ret.panic) =>
       /\ http.cl = NoLogger
       /\ http.msg \in {"wrapped cannot be nil", "logFn cannot be nil"}
  /\ http.cl # NoLogger => (http.cl.wrapped = "handler" /\ http.cl.logFn = "func")
  /\ http.pc # "idle" => (http.cl.wrapped = "handler" /\ http.cl.logFn = "func")

\* s is a decimal number as a Content-Length header carries it: one or
\* more digits, no leading zero.
Numeric(s) ==
  /\ s # <<>>
  /\ \A j \in 1..Len(s) : DigitOf(s[j]) < 10
  /\ Len(s) > 1 => s[1] # "0"

\* The decimal digits of n (not negative), most significant first.
RECURSIVE Digits(_)
Digits(n) ==
  LET ch == CHOOSE x \in {"0", "1", "2", "3", "4", "5", "6", "7", "8", "9"} :
              DigitOf(x) = n % 10
  IN IF n < 10 THEN <<ch>> ELSE Append(Digits(n \div 10), ch)

\* The int v is the integer that header s carries, or 0 when s is absent
\* or not numeric.
ParsedFrom(v, s) ==
  /\ v.kind = "int"
  /\ IF Numeric(s) THEN v.i >= 0 /\ Digits(v.i) = s ELSE v.i = 0

\* C15: the body_bytes fields that the middleware logs are the integers
\* of the Content-Length headers of the request and of the response, and
\* are 0 when the header is absent or not numeric.
C15_BodyBytesParsed ==
  http.pc = "done" =>
    /\ ParsedFrom(Stored(KeyRequestBytes), http.header)
    /\ ParsedFrom(Stored(KeyResponseBytes), http.respHeader)

\* The status code of the response that the handler produced: the code of
\* its first WriteHeader, StatusOK when it called none.
ResponseStatus == IF http.wroteHeader = 0 THEN StatusOK ELSE http.wroteHeader

\* C16: the status_code that the middleware logs is the status code of
\* the response the handler produced, whether the handler called
\* WriteHeader once, never, or more than once.
C16_StatusCodeLogged ==
  http.pc = "done" => Stored(KeyStatusCode) = IntVal(ResponseStatus)

====
